---- MODULE Spec2Model ----
(***************************************************************************)
(* kineticsTools.summarizeModifications: ModificationSummary.run merges    *)
(* the modification calls of a modifications GFF into the region records   *)
(* of an alignment-summary GFF.                                            *)
(*                                                                         *)
(* A text is a sequence of tokens: one-character strings for the           *)
(* characters the code inspects ("#", " ", ",", tab, newline, digits) and  *)
(* strings of other characters for everything else; the text is the        *)
(* concatenation of its tokens.  A whitespace character that has no TLA+   *)
(* string literal is the token naming its code point ("U+000B").  A line   *)
(* of the alignment summary is                                             *)
(* either a text line [kind |-> "text", toks] or a tab-separated feature   *)
(* line [kind |-> "gff", seqid, type, start, end, attrs, eol]; a text line *)
(* that does not begin with "#", and a feature line whose attribute column *)
(* is empty, is a line Gff3Record.fromString rejects.                      *)
(***************************************************************************)
EXTENDS Integers, Sequences, FiniteSets, TLC

VARIABLES
    modFile,      \* self.modifications: the file, its records if it exists
                  \* (the lines written to it once the run has overwritten it)
    summaryFile,  \* self.alignmentSummary: the file, its lines if it exists
    outPath,      \* self.outfile: "new", "unwritable", or "summary" / "mods"
                  \* when it names the alignment-summary file / the
                  \* modifications file itself
    outfile,      \* the lines on disk at self.outfile
    known,        \* self.knownModificationEvents is set (run, line 64)
    outOpen,      \* summaryWriter is open (the file has been truncated)
    pc,           \* position in _mainLoop
    err,          \* the exception that ended the run, "none" if none
    hits,         \* local hits of _mainLoop
    li,           \* lines of summaryFile consumed by the for loop
    inHeader,     \* local inHeader of _mainLoop
    seqMap,       \* self.seqMap
    mods,         \* argument of a direct countModificationTypes call
    perm,         \* a reordering of mods
    ret           \* <<counts of mods, counts of perm>> once called

vars == <<modFile, summaryFile, outPath, outfile, known, outOpen, pc, err,
          hits, li, inHeader, seqMap, mods, perm, ret>>

----------------------------------------------------------------------------
(* Bounds of the model *)

MaxHits == 2
MaxLines == 3
MaxMods == 3

----------------------------------------------------------------------------
(* Sequences and texts *)

SeqsUpTo(S, n) == UNION {[1..k -> S] : k \in 0..n}

Range(s) == {s[i] : i \in 1..Len(s)}

\* the characters str.strip() removes (str.isspace)
Whitespace ==
    {" ", "\t", "\n", "\r", "\f", "U+000B", "U+001C", "U+001D", "U+001E",
     "U+001F", "U+0085", "U+00A0", "U+1680", "U+2000", "U+2001", "U+2002",
     "U+2003", "U+2004", "U+2005", "U+2006", "U+2007", "U+2008", "U+2009",
     "U+200A", "U+2028", "U+2029", "U+202F", "U+205F", "U+3000"}

Digits == <<"0", "1", "2", "3", "4", "5", "6", "7", "8", "9">>

\* str(n) for an int n >= 0
RECURSIVE Str(_)
Str(n) == IF n < 10 THEN <<Digits[n + 1]>>
          ELSE Str(n \div 10) \o <<Digits[(n % 10) + 1]>>

IsDigit(c) == \E d \in 1..10 : Digits[d] = c

DigitVal(c) == (CHOOSE d \in 1..10 : Digits[d] = c) - 1

\* int(t) for a text of digits
RECURSIVE ToInt(_)
ToInt(t) == IF Len(t) = 0 THEN 0
            ELSE 10 * ToInt(SubSeq(t, 1, Len(t) - 1)) + DigitVal(t[Len(t)])

\* sep.join(parts)
RECURSIVE Join(_, _)
Join(sep, parts) ==
    IF Len(parts) = 0 THEN <<>>
    ELSE IF Len(parts) = 1 THEN parts[1]
    ELSE parts[1] \o <<sep>> \o Join(sep, Tail(parts))

\* t.split(sep): n occurrences of sep give n + 1 parts, empty parts kept
RECURSIVE Split(_, _)
Split(t, sep) ==
    IF \A i \in 1..Len(t) : t[i] # sep THEN <<t>>
    ELSE LET i == CHOOSE j \in 1..Len(t) :
                      t[j] = sep /\ \A k \in 1..(j - 1) : t[k] # sep
         IN  <<SubSeq(t, 1, i - 1)>> \o Split(SubSeq(t, i + 1, Len(t)), sep)

\* the string a text stands for
RECURSIVE Flatten(_)
Flatten(t) == IF Len(t) = 0 THEN "" ELSE t[1] \o Flatten(Tail(t))

\* t.replace(c, '')
Remove(t, c) == SelectSeq(t, LAMBDA x : x # c)

RECURSIVE LStrip(_)
LStrip(t) == IF Len(t) > 0 /\ t[1] \in Whitespace THEN LStrip(Tail(t)) ELSE t

RECURSIVE RStrip(_)
RStrip(t) == IF Len(t) > 0 /\ t[Len(t)] \in Whitespace
             THEN RStrip(SubSeq(t, 1, Len(t) - 1)) ELSE t

StripLeading(t) == LStrip(t)

\* t.strip()
Strip(t) == LStrip(RStrip(t))

\* t.partition(sep)
Partition(t, sep) ==
    IF \A i \in 1..Len(t) : t[i] # sep THEN <<t, <<>>, <<>>>>
    ELSE LET i == CHOOSE j \in 1..Len(t) :
                      t[j] = sep /\ \A k \in 1..(j - 1) : t[k] # sep
         IN  <<SubSeq(t, 1, i - 1), <<sep>>, SubSeq(t, i + 1, Len(t))>>

----------------------------------------------------------------------------
(* ModificationSummary.run and countModificationTypes *)

knownModificationEvents == <<"modified_base", "m6A", "m4C", "m5C">>

KnownTypes == Range(knownModificationEvents)

\* the code points of the type strings that occur
TypeCodes(t) ==
    CASE t = "m4C" -> <<109, 52, 67>>
      [] t = "m5C" -> <<109, 53, 67>>
      [] t = "m6A" -> <<109, 54, 65>>
      [] t = "modified_base" ->
            <<109, 111, 100, 105, 102, 105, 101, 100, 95, 98, 97, 115, 101>>
      [] t = "other" -> <<111, 116, 104, 101, 114>>
      [] t = "a" -> <<97>>
      [] t = "m" -> <<109>>
      [] t = "x" -> <<120>>
      [] t = "y" -> <<121>>
      [] t = "zz" -> <<122, 122>>

\* a <= b for Python strings: by code point, a prefix first
RECURSIVE LexLeq(_, _)
LexLeq(a, b) ==
    IF Len(a) = 0 THEN TRUE
    ELSE IF Len(b) = 0 THEN FALSE
    ELSE IF a[1] # b[1] THEN a[1] < b[1]
    ELSE LexLeq(Tail(a), Tail(b))

\* x["type"] <= y["type"]
TypeLeq(t, u) == LexLeq(TypeCodes(t), TypeCodes(u))

\* Insert x after the elements whose key is not greater (a stable sort)
RECURSIVE InsertByType(_, _)
InsertByType(s, x) ==
    IF Len(s) = 0 THEN <<x>>
    ELSE IF TypeLeq(s[Len(s)].type, x.type) THEN Append(s, x)
    ELSE Append(InsertByType(SubSeq(s, 1, Len(s) - 1), x), s[Len(s)])

SortByTypeSkipped(s) == s

\* sorted(mods, key=lambda x: x["type"])
RECURSIVE SortByType(_)
SortByType(s) ==
    IF Len(s) = 0 THEN <<>>
    ELSE InsertByType(SortByType(SubSeq(s, 1, Len(s) - 1)), s[Len(s)])

\* groupby(mods, lambda x: x["type"]): the runs of equal keys, as <<k, len(g)>>
RECURSIVE GroupBy(_)
GroupBy(s) ==
    IF Len(s) = 0 THEN <<>>
    ELSE LET k == s[1].type
             n == CHOOSE m \in 1..Len(s) :
                      /\ \A i \in 1..m : s[i].type = k
                      /\ m = Len(s) \/ s[m + 1].type # k
         IN  <<<<k, n>>>> \o GroupBy(SubSeq(s, n + 1, Len(s)))

\* counts[k] = len(list(g)) for each group in turn
RECURSIVE AssignGroups(_, _)
AssignGroups(counts, groups) ==
    IF Len(groups) = 0 THEN counts
    ELSE LET k == groups[1][1]
             n == groups[1][2]
         IN  AssignGroups([x \in DOMAIN counts \cup {k} |->
                              IF x = k THEN n ELSE counts[x]],
                          Tail(groups))

countModificationTypes(ms) ==
    AssignGroups([x \in KnownTypes |-> 0], GroupBy(SortByType(ms)))

----------------------------------------------------------------------------
(* Lines, records and the pbcore GFF interface *)

TextLine(t) == [kind |-> "text", toks |-> t]

GffLine(seqid, type, start, end, attrs, eol) ==
    [kind |-> "gff", seqid |-> seqid, type |-> type, start |-> start,
     end |-> end, attrs |-> attrs, eol |-> eol]

\* line[0] == "#"
IsMeta(line) == line.kind = "text" /\ Len(line.toks) > 0 /\ line.toks[1] = "#"

\* Gff3Record.fromString(line) returns a record (it raises otherwise): the
\* line has its nine columns, the ninth (the attributes) not empty
Parses(line) == line.kind = "gff" /\ line.attrs # <<>>

\* Gff3Record.fromString(line): the columns, start and end as ints
fromString(line) ==
    [seqid |-> line.seqid, type |-> line.type, start |-> ToInt(line.start),
     end |-> ToInt(line.end), attrs |-> line.attrs]

\* rec.<key> = val for a key that is no GFF column: rec.attributes[key] = val
SetAttr(rec, key, val) ==
    [rec EXCEPT !.attrs =
        IF \E i \in 1..Len(@) : @[i][1] = key
        THEN [i \in 1..Len(@) |-> IF @[i][1] = key THEN <<key, val>> ELSE @[i]]
        ELSE Append(@, <<key, val>>)]

\* str(rec): the line of the record, without a line end
RecStr(rec) ==
    GffLine(rec.seqid, rec.type, Str(rec.start), Str(rec.end), rec.attrs, <<>>)

HasAttr(line, key) == \E i \in 1..Len(line.attrs) : line.attrs[i][1] = key

AttrOf(line, key) ==
    line.attrs[CHOOSE i \in 1..Len(line.attrs) : line.attrs[i][1] = key][2]

----------------------------------------------------------------------------
(* ModificationSummary._mainLoop *)

\* sys.argv
Argv == <<<<"summarizeModifications.py">>, <<"modifications.gff">>,
          <<"alignment_summary.gff">>, <<"out.gff">>>>

Quoted(x) == <<"\"", x, "\"">>

headerString ==
    Join(",", [i \in 1..Len(knownModificationEvents) |->
                  Quoted(knownModificationEvents[i])])

headers == <<
    <<"source", <<"kineticModificationCaller", " ", "1.3.3">>>>,
    <<"source-commandline", Join(" ", Argv)>>,
    <<"attribute-description", <<"modsfwd - count of detected DNA modifications on forward strand by modification event type">>>>,
    <<"attribute-description", <<"modsrev - count of detected DNA modifications on reverse strand by modification event type">>>>,
    <<"region-modsfwd", headerString>>,
    <<"region-modsfwd", headerString>> >>

\* print("##%s %s" % field) for each field of headers
InjectedLines ==
    [i \in 1..Len(headers) |->
        TextLine(<<"#", "#", headers[i][1], " ">> \o headers[i][2])]

\* the hits list comprehension over modReader
RECURSIVE LoadedHits(_)
LoadedHits(recs) ==
    IF Len(recs) = 0 THEN <<>>
    ELSE LET x == recs[1]
         IN  (IF x.type \in KnownTypes
              THEN <<[pos |-> x.start, strand |-> x.strand,
                      seqid |-> x.seqid, type |-> x.type]>>
              ELSE <<>>) \o LoadedHits(Tail(recs))

InIntervalAnySeq(rec, h) == rec.start <= h.pos /\ h.pos <= rec.end

InIntervalHalfOpen(rec, h) ==
    rec.start <= h.pos /\ h.pos < rec.end /\ rec.seqid = h.seqid

\* rec.start <= h['pos'] <= rec.end and rec.seqid == h['seqid']
InInterval(rec, h) ==
    rec.start <= h.pos /\ h.pos <= rec.end /\ rec.seqid = h.seqid

intervalHits(rec, hs) == SelectSeq(hs, LAMBDA h : InInterval(rec, h))

OnStrand(hs, s) == SelectSeq(hs, LAMBDA h : h.strand = s)

CountsAttrSeen(c) ==
    Join(",", [i \in 1..Cardinality({x \in KnownTypes : c[x] > 0}) |->
                  Str(c[SelectSeq(knownModificationEvents,
                                  LAMBDA x : c[x] > 0)[i]])])

\* ",".join([str(c[x]) for x in self.knownModificationEvents])
CountsAttr(c) ==
    Join(",", [i \in 1..Len(knownModificationEvents) |->
                  Str(c[knownModificationEvents[i]])])

\* the body of "if rec.type == 'region'" up to the two assignments
Annotate(rec, hs) ==
    LET ih   == intervalHits(rec, hs)
        cFwd == countModificationTypes(OnStrand(ih, "+"))
        cRev == countModificationTypes(OnStrand(ih, "-"))
    IN  SetAttr(SetAttr(rec, "modsfwd", CountsAttr(cFwd)),
                "modsrev", CountsAttr(cRev))

\* what the loop body writes for a feature line that parsed
FeatureOutput(rec, hs) ==
    IF rec.type = "region" THEN <<RecStr(Annotate(rec, hs))>> ELSE <<>>

\* field of the header parse of a metadata line, as a string
HeaderField(line) == Flatten(Split(Remove(line.toks, "#"), " ")[1])

\* self.seqMap after the header parse of a metadata line
SeqMapAfter(map, line) ==
    LET splitFields == Split(Remove(line.toks, "#"), " ")
        field       == HeaderField(line)
        value       == Join(" ", Tail(splitFields))
        parts       == Partition(Strip(value), " ")
        internalTag == Flatten(parts[1])
        externalTag == Flatten(parts[3])
    IN  IF field = "sequence-header"
        THEN [k \in DOMAIN map \cup {internalTag} |->
                 IF k = internalTag THEN externalTag ELSE map[k]]
        ELSE map

\* the content of an output file of its own before the run
OldOutput == <<TextLine(<<"stale">>)>>

\* what is on disk at self.outfile before the run
OldContent(m, s, path) ==
    CASE path = "new" -> OldOutput
      [] path = "summary" -> s.lines
      [] path = "mods" -> m.recs
      [] path = "unwritable" -> <<>>

\* the modifications file once the output file holds out: the same lines
\* when both paths name one file
ModFileAfter(m, path, out) == IF path = "mods" THEN [m EXCEPT !.recs = out] ELSE m

\* run(): self.knownModificationEvents is set, then _mainLoop is entered
Run ==
    /\ pc = "new"
    /\ known' = TRUE
    /\ pc' = "load"
    /\ UNCHANGED <<modFile, summaryFile, outPath, outfile, outOpen, err, hits,
                   li, inHeader, seqMap, mods, perm, ret>>

\* GffReader(self.modifications) and the hits comprehension, then lines 109-110
LoadHits ==
    /\ pc = "load"
    /\ IF modFile.exists /\ \A i \in 1..Len(modFile.recs) : modFile.recs[i].ok
       THEN /\ hits' = LoadedHits(modFile.recs)
            /\ seqMap' = <<>>
            /\ inHeader' = TRUE
            /\ pc' = "openSummary"
            /\ err' = err
       ELSE /\ pc' = "failed"
            /\ err' = "mods"
            /\ UNCHANGED <<hits, seqMap, inHeader>>
    /\ UNCHANGED <<modFile, summaryFile, outPath, known, outfile, outOpen, li, mods, perm, ret>>

OpenSummaryAfterOutput ==
    /\ pc = "openSummary"
    /\ outfile' = <<>>
    /\ IF summaryFile.exists
       THEN pc' = "openOut" /\ err' = err /\ outOpen' = TRUE
       ELSE pc' = "failed" /\ err' = "summary" /\ outOpen' = FALSE
    /\ UNCHANGED <<modFile, summaryFile, outPath, known, hits, li, inHeader, seqMap,
                   mods, perm, ret>>

\* with open(self.alignmentSummary) as summaryFile
OpenSummary ==
    /\ pc = "openSummary"
    /\ IF summaryFile.exists
       THEN pc' = "openOut" /\ err' = err
       ELSE pc' = "failed" /\ err' = "summary"
    /\ UNCHANGED <<modFile, summaryFile, outPath, known, outfile, outOpen, hits, li,
                   inHeader, seqMap, mods, perm, ret>>

\* with open(self.outfile, "w") as summaryWriter: it raises when the path
\* cannot be opened for writing, and truncates the file otherwise, which is
\* the open alignment summary when both paths name one file
OpenOutput ==
    /\ pc = "openOut"
    /\ IF outPath = "unwritable"
       THEN /\ pc' = "failed"
            /\ err' = "output"
            /\ UNCHANGED <<outfile, outOpen, summaryFile, modFile>>
       ELSE /\ outfile' = <<>>
            /\ modFile' = ModFileAfter(modFile, outPath, <<>>)
            /\ outOpen' = TRUE
            /\ pc' = "loop"
            /\ err' = err
            /\ summaryFile' = IF outPath = "summary"
                              THEN [summaryFile EXCEPT !.lines = <<>>]
                              ELSE summaryFile
    /\ UNCHANGED <<outPath, known, hits, li, inHeader, seqMap,
                   mods, perm, ret>>

\* lines 130-134: what "if inHeader" writes before a feature line is parsed
InjectedBlock(inH) == IF inH THEN InjectedLines ELSE <<>>

HeaderAfterStuck(line, inH) == inH

HeaderAfterReset(line, inH) == IsMeta(line)

\* inHeader at the end of an iteration on line
HeaderAfter(line, inH) == IF IsMeta(line) THEN inH ELSE FALSE

ProcessLineSkipBad ==
    /\ pc = "loop"
    /\ li < Len(summaryFile.lines)
    /\ li' = li + 1
    /\ LET line == summaryFile.lines[li + 1]
       IN  /\ inHeader' = HeaderAfter(line, inHeader)
           /\ UNCHANGED <<pc, err, outOpen>>
           /\ IF IsMeta(line)
              THEN /\ seqMap' = SeqMapAfter(seqMap, line)
                   /\ outfile' = Append(outfile, TextLine(Strip(line.toks)))
              ELSE /\ seqMap' = seqMap
                   /\ outfile' = outfile \o InjectedBlock(inHeader) \o
                         (IF Parses(line)
                          THEN FeatureOutput(fromString(line), hits)
                          ELSE <<>>)
    /\ modFile' = ModFileAfter(modFile, outPath, outfile')
    /\ UNCHANGED <<summaryFile, outPath, known, hits, mods, perm, ret>>

\* one iteration of "for line in summaryFile"
ProcessLine ==
    /\ pc = "loop"
    /\ li < Len(summaryFile.lines)
    /\ li' = li + 1
    /\ LET line == summaryFile.lines[li + 1]
       IN  /\ inHeader' = HeaderAfter(line, inHeader)
           /\ IF IsMeta(line)
              THEN /\ seqMap' = SeqMapAfter(seqMap, line)
                   /\ outfile' = Append(outfile, TextLine(Strip(line.toks)))
                   /\ UNCHANGED <<pc, err, outOpen>>
              ELSE /\ seqMap' = seqMap
                   /\ IF Parses(line)
                      THEN /\ outfile' = outfile \o InjectedBlock(inHeader) \o
                                         FeatureOutput(fromString(line), hits)
                           /\ UNCHANGED <<pc, err, outOpen>>
                      ELSE /\ outfile' = outfile \o InjectedBlock(inHeader)
                           /\ pc' = "failed"
                           /\ err' = "parse"
                           /\ outOpen' = FALSE
    /\ modFile' = ModFileAfter(modFile, outPath, outfile')
    /\ UNCHANGED <<summaryFile, outPath, known, hits, mods, perm, ret>>

\* the loop ends, both files are closed, return 0
Finish ==
    /\ pc = "loop"
    /\ li = Len(summaryFile.lines)
    /\ pc' = "done"
    /\ outOpen' = FALSE
    /\ UNCHANGED <<modFile, summaryFile, outPath, known, outfile, err, hits, li, inHeader,
                   seqMap, mods, perm, ret>>

Next == Run \/ LoadHits \/ OpenSummary \/ OpenOutput \/ ProcessLine \/ Finish

----------------------------------------------------------------------------
(* Inputs *)

ModRecord(type, start, strand, seqid) ==
    [ok |-> TRUE, type |-> type, start |-> start, strand |-> strand,
     seqid |-> seqid]

\* a line of the modification file GffReader cannot parse
BadRecord == [ok |-> FALSE, type |-> "", start |-> 0, strand |-> "", seqid |-> ""]

File(recs) == [exists |-> TRUE, recs |-> recs]

MissingMods == [exists |-> FALSE, recs |-> <<>>]

Summary(lines) == [exists |-> TRUE, lines |-> lines]

MissingSummary == [exists |-> FALSE, lines |-> <<>>]

Nl == <<"\n">>

GffVersion == TextLine(<<"#", "#", "gff-version", " ", "3", "\n">>)

SeqHeader ==
    TextLine(<<"#", "#", "sequence-header", " ", "ref000001", " ", "chr1", "\n">>)

Comment == TextLine(<<"#", "note", " ", "\f", "\n">>)

HashedHeader ==
    TextLine(<<"#", "#", "sequence-", "#", "header", " ", "ref000002", " ",
               "chr2", " ", "plasmid", "\n">>)

BareMarker == TextLine(<<"#", "\n">>)

Garbage == TextLine(<<"garbage", "\n">>)

Blank == TextLine(<<"\n">>)

Cov == <<<<"cov2", <<"5">>>>>>

StaleMods == <<<<"modsfwd", <<"9">>>>, <<"cov2", <<"5">>>>>>

RegionA == GffLine("chr1", "region", <<"1">>, <<"2">>, Cov, Nl)

RegionB == GffLine("chr2", "region", <<"2">>, <<"3">>, StaleMods, Nl)

Gene == GffLine("chr1", "gene", <<"1">>, <<"2">>, Cov, Nl)

\* a region line whose attribute column is empty
NoAttrs == GffLine("chr1", "region", <<"1">>, <<"2">>, <<>>, Nl)

StreamLines == {GffVersion, SeqHeader, HashedHeader, Comment, BareMarker,
                Garbage, Blank, NoAttrs,
                RegionA, RegionB, Gene}

StreamModFiles ==
    {MissingMods, File(<<>>),
     File(<<ModRecord("m6A", 1, "+", "chr1"), BadRecord>>),
     File(<<ModRecord("m6A", 1, "+", "chr1"), ModRecord("m4C", 3, "-", "chr2"),
            ModRecord("other", 2, "+", "chr1")>>)}

StreamSummaries ==
    {MissingSummary} \cup {Summary(ls) : ls \in SeqsUpTo(StreamLines, MaxLines)}

Start(m, s, o) ==
    /\ modFile = m
    /\ summaryFile = s
    /\ outPath = o
    /\ outfile = OldContent(m, s, o)
    /\ known = FALSE
    /\ outOpen = FALSE
    /\ pc = "new"
    /\ err = "none"
    /\ hits = <<>>
    /\ li = 0
    /\ inHeader = TRUE
    /\ seqMap = <<>>
    /\ mods = <<>>
    /\ perm = <<>>
    /\ ret = <<>>

OutPaths == {"new", "unwritable", "summary", "mods"}

Init ==
    \E m \in StreamModFiles, s \in StreamSummaries, o \in OutPaths :
        Start(m, s, o)

Spec == Init /\ [][Next]_vars

----------------------------------------------------------------------------
(* Inputs that exercise the counting: many hits, one or two regions *)

HitTypes == KnownTypes \cup {"other"}

HitPositions == {2, 3}

MergeRecords ==
    {ModRecord(t, p, s, "chr1") : t \in HitTypes, p \in HitPositions,
                                  s \in {"+", "-"}}

MergeModFiles == {File(recs) : recs \in SeqsUpTo(MergeRecords, MaxHits)}

Region(seqid, start, end, attrs) ==
    GffLine(seqid, "region", Str(start), Str(end), attrs, Nl)

Core == Region("chr1", 2, 3, Cov)

MergeRegions ==
    {Core, Region("chr1", 3, 4, Cov), Region("chr1", 1, 2, Cov),
     Region("chr2", 2, 3, Cov), Region("chr1", 1, 4, StaleMods),
     Region("chr1", 3, 2, Cov)}

MergeSummaries ==
    {Summary(<<r>>) : r \in MergeRegions}
        \cup {Summary(<<r, Core>>) : r \in MergeRegions}
        \cup {Summary(<<Region("chr1", 1, 2, Cov), Region("chr1", 3, 4, Cov)>>)}

InitMerge == \E m \in MergeModFiles, s \in MergeSummaries : Start(m, s, "new")

SpecMerge == InitMerge /\ [][Next]_vars

----------------------------------------------------------------------------
(* Direct calls of countModificationTypes on a list and on its reorderings *)

CountHits ==
    {[pos |-> p, strand |-> "+", seqid |-> "chr1", type |-> t] :
        p \in {1, 2}, t \in KnownTypes}
        \cup {[pos |-> 1, strand |-> "+", seqid |-> "chr1", type |-> t] :
                 t \in {"a", "x"}}

\* an object on which run() has returned (on empty inputs), or a new one
InitCount ==
    /\ mods \in SeqsUpTo(CountHits, MaxMods)
    /\ perm = mods
    /\ ret = <<>>
    /\ modFile = File(<<>>)
    /\ summaryFile = Summary(<<>>)
    /\ outPath = "new"
    /\ known \in BOOLEAN
    /\ pc = (IF known THEN "done" ELSE "new")
    /\ outfile = (IF known THEN <<>> ELSE OldOutput)
    /\ outOpen = FALSE
    /\ err = "none"
    /\ hits = <<>>
    /\ li = 0
    /\ inHeader = TRUE
    /\ seqMap = <<>>

\* the caller passes the same hits in another order
Reorder ==
    /\ pc \in {"new", "done"}
    /\ ret = <<>> /\ err = "none"
    /\ \E i \in 1..(Len(perm) - 1) :
          perm' = [perm EXCEPT ![i] = perm[i + 1], ![i + 1] = perm[i]]
    /\ UNCHANGED <<modFile, summaryFile, outPath, known, outfile, outOpen, pc,
                   err, hits, li, inHeader, seqMap, mods, ret>>

\* self.countModificationTypes on both orders; line 77 raises AttributeError
\* when run() has not set self.knownModificationEvents
CallCount ==
    /\ pc \in {"new", "done"}
    /\ ret = <<>> /\ err = "none"
    /\ IF known
       THEN /\ ret' = <<countModificationTypes(mods),
                       countModificationTypes(perm)>>
            /\ err' = err
       ELSE /\ err' = "AttributeError"
            /\ ret' = ret
    /\ UNCHANGED <<modFile, summaryFile, outPath, known, outfile, outOpen, pc,
                   hits, li, inHeader, seqMap, mods, perm>>

NextCount == Reorder \/ CallCount

SpecCount == InitCount /\ [][NextCount]_vars

----------------------------------------------------------------------------
(* Vocabulary of the properties *)

Lines == summaryFile.lines

\* the lines the loop has consumed
ReadLines == SubSeq(Lines, 1, li)

IsRecord(l) == l.kind = "gff"

IsRegionLine(l) == l.kind = "gff" /\ l.attrs # <<>> /\ l.type = "region"

IsInjected(l) == \E i \in 1..Len(InjectedLines) : InjectedLines[i] = l

\* what this run has written to the output file
Written == IF pc \in {"new", "load", "openSummary", "openOut"}
              \/ err \in {"mods", "summary", "output", "AttributeError"}
           THEN <<>> ELSE outfile

OutRecords == SelectSeq(Written, IsRecord)

ReadRegions == SelectSeq(ReadLines, IsRegionLine)

Count(sq, P(_)) == Cardinality({i \in 1..Len(sq) : P(sq[i])})

\* index of the first line that does not begin with "#", 0 if there is none
FirstFeature ==
    IF \A i \in 1..Len(Lines) : IsMeta(Lines[i]) THEN 0
    ELSE CHOOSE i \in 1..Len(Lines) :
             ~IsMeta(Lines[i]) /\ \A j \in 1..(i - 1) : IsMeta(Lines[j])

\* the order of the counts the documentation of modsfwd/modsrev fixes
TagOrder == <<"modified_base", "m6A", "m4C", "m5C">>

\* records of the modification file a region line r counts for tag and strand
Matching(r, tag, strand) ==
    {j \in 1..Len(modFile.recs) :
        /\ modFile.recs[j].type = tag
        /\ modFile.recs[j].strand = strand
        /\ modFile.recs[j].seqid = r.seqid
        /\ ToInt(r.start) <= modFile.recs[j].start
        /\ modFile.recs[j].start <= ToInt(r.end)}

Tokens(line, key) == Split(AttrOf(line, key), ",")

IsNumber(t) == Len(t) > 0 /\ \A i \in 1..Len(t) : IsDigit(t[i])

\* out is t without its leading and trailing whitespace
TrimOf(out, t) ==
    /\ Len(out) = 0 \/ (out[1] \notin Whitespace /\ out[Len(out)] \notin Whitespace)
    /\ \E a \in 0..Len(t) :
          /\ a + Len(out) <= Len(t)
          /\ SubSeq(t, a + 1, a + Len(out)) = out
          /\ \A i \in (1..a) \cup ((a + Len(out) + 1)..Len(t)) : t[i] \in Whitespace

\* position in the output of what the loop wrote for its i-th line
OutPos(i) ==
    Count(SubSeq(Lines, 1, i), IsMeta) + Count(SubSeq(Lines, 1, i), IsRegionLine)
        + (IF FirstFeature > 0 /\ i >= FirstFeature THEN Len(InjectedLines) ELSE 0)

----------------------------------------------------------------------------
(* Properties of the counts (SpecMerge) *)

\* C1: the i-th record of the output is the i-th region line read, and its
\* modsfwd (modsrev) lists, in the order modified_base, m6A, m4C, m5C, the
\* number of records of the modification file with that type, strand "+"
\* ("-"), the region's sequence identifier and start <= position <= end
\* (a run whose output path is the modification file overwrites the records).
C1_RegionCounts ==
    outPath # "mods" =>
    /\ Len(OutRecords) = Len(ReadRegions)
    /\ \A i \in 1..Len(OutRecords) :
          LET o == OutRecords[i]
              r == ReadRegions[i]
          IN  /\ o.seqid = r.seqid /\ o.start = r.start /\ o.end = r.end
              /\ HasAttr(o, "modsfwd") /\ HasAttr(o, "modsrev")
              /\ Len(Tokens(o, "modsfwd")) = 4 /\ Len(Tokens(o, "modsrev")) = 4
              /\ \A k \in 1..4 :
                    /\ ToInt(Tokens(o, "modsfwd")[k])
                          = Cardinality(Matching(r, TagOrder[k], "+"))
                    /\ ToInt(Tokens(o, "modsrev")[k])
                          = Cardinality(Matching(r, TagOrder[k], "-"))

\* one hit counted in both of two overlapping regions, an unknown type ignored
C1_Witness ==
    /\ pc = "done"
    /\ Len(OutRecords) = 2
    /\ Len(modFile.recs) = 2 /\ Len(hits) = 1
    /\ \A i \in 1..2 :
          AttrOf(OutRecords[i], "modsfwd") = <<"0", ",", "1", ",", "0", ",", "0">>

\* the sum of the eight counts a written record carries
TotalCount(o) ==
    LET total(key) == ToInt(Tokens(o, key)[1]) + ToInt(Tokens(o, key)[2])
                      + ToInt(Tokens(o, key)[3]) + ToInt(Tokens(o, key)[4])
    IN  total("modsfwd") + total("modsrev")

\* the loaded hits on the sequence of record o
SameSeq(o) == SelectSeq(hits, LAMBDA h : h.seqid = o.seqid)

\* C2 as stated, for every region whatever its bounds: the hits of its
\* sequence at start or at end are all counted and those at start-1 or
\* end+1 are not.
C2_AnyBounds ==
    \A i \in 1..Len(OutRecords) :
        LET o == OutRecords[i]
            lo == ToInt(ReadRegions[i].start)
            hi == ToInt(ReadRegions[i].end)
            onEdge(h) == h.pos = lo \/ h.pos = hi
            justOut(h) == h.pos = lo - 1 \/ h.pos = hi + 1
        IN  /\ TotalCount(o) >= Count(SameSeq(o), onEdge)
            /\ TotalCount(o) <= Len(SameSeq(o)) - Count(SameSeq(o), justOut)

\* C2: for a region with start <= end, the hits of its sequence at start or
\* at end are all counted and those at start-1 or end+1 are not; a region
\* with start > end counts no hit, not even one at start or at end.
C2_ClosedInterval ==
    \A i \in 1..Len(OutRecords) :
        LET o == OutRecords[i]
            lo == ToInt(ReadRegions[i].start)
            hi == ToInt(ReadRegions[i].end)
            onEdge(h) == h.pos = lo \/ h.pos = hi
            justOut(h) == h.pos = lo - 1 \/ h.pos = hi + 1
        IN  IF lo <= hi
            THEN /\ TotalCount(o) >= Count(SameSeq(o), onEdge)
                 /\ TotalCount(o)
                       <= Len(SameSeq(o)) - Count(SameSeq(o), justOut)
            ELSE TotalCount(o) = 0

\* a hit at the end of one region and at start-1 of the next, and a hit at
\* end+1 of the first and at the start of the second
C2_Witness ==
    /\ pc = "done"
    /\ \E i \in 1..Len(ReadRegions), a, b \in 1..Len(hits) :
          /\ hits[a].seqid = ReadRegions[i].seqid
          /\ hits[b].seqid = ReadRegions[i].seqid
          /\ ToInt(ReadRegions[i].start) < ToInt(ReadRegions[i].end)
          /\ hits[a].pos = ToInt(ReadRegions[i].end)
          /\ hits[b].pos = ToInt(ReadRegions[i].end) + 1
    /\ \E i \in 1..Len(ReadRegions), a \in 1..Len(hits) :
          /\ hits[a].seqid = ReadRegions[i].seqid
          /\ hits[a].pos = ToInt(ReadRegions[i].start) - 1

\* C3: every record of the output carries modsfwd and modsrev, each of 4
\* comma-separated tokens that are digit strings, "0" for a type without a
\* loaded hit of that strand in the region.
C3_FourTokens ==
    \A i \in 1..Len(OutRecords) :
        LET o == OutRecords[i]
            strandOf(key) == IF key = "modsfwd" THEN "+" ELSE "-"
        IN  \A key \in {"modsfwd", "modsrev"} :
              /\ HasAttr(o, key)
              /\ Len(Tokens(o, key)) = 4
              /\ \A k \in 1..4 :
                    /\ IsNumber(Tokens(o, key)[k])
                    /\ (\A a \in 1..Len(hits) :
                           ~(/\ hits[a].type = TagOrder[k]
                             /\ hits[a].strand = strandOf(key)
                             /\ hits[a].seqid = o.seqid
                             /\ ToInt(o.start) <= hits[a].pos
                             /\ hits[a].pos <= ToInt(o.end)))
                       => Tokens(o, key)[k] = <<"0">>

\* a region with forward hits only: modsrev is all zeros, modsfwd is not
C3_Witness ==
    /\ pc = "done"
    /\ \E i \in 1..Len(OutRecords) :
          /\ AttrOf(OutRecords[i], "modsrev") = <<"0", ",", "0", ",", "0", ",", "0">>
          /\ AttrOf(OutRecords[i], "modsfwd") = <<"1", ",", "0", ",", "0", ",", "1">>

----------------------------------------------------------------------------
(* Properties of the stream (Spec) *)

NumInjected(sq) == Count(sq, IsInjected)

\* C4 as stated, for an input that has a feature line: a finished run has
\* written the block exactly once, right after the last metadata line of
\* the input and before any record.
C4_BlockAfterLastMetadata ==
    (pc = "done" /\ FirstFeature > 0) =>
        LET m == Count(Lines, IsMeta)
        IN  /\ NumInjected(outfile) = Len(InjectedLines)
            /\ Len(outfile) >= m + Len(InjectedLines)
            /\ SubSeq(outfile, m + 1, m + Len(InjectedLines)) = InjectedLines
            /\ \A i \in 1..m : ~IsRecord(outfile[i])

\* C4 amended: once the loop has read the first line that does not begin
\* with "#", the output is the metadata lines before that line, then the
\* block, then lines none of which belongs to the block; until then, and in
\* a run that never reads such a line, no line of the block is written.
C4_BlockAtFirstFeature ==
    LET k == FirstFeature
        n == Len(InjectedLines)
    IN  IF k > 0 /\ li >= k
        THEN /\ Len(Written) >= k - 1 + n
             /\ \A i \in 1..(k - 1) :
                   Written[i].kind = "text" /\ TrimOf(Written[i].toks, Lines[i].toks)
             /\ SubSeq(Written, k, k - 1 + n) = InjectedLines
             /\ \A i \in (k + n)..Len(Written) : ~IsInjected(Written[i])
        ELSE NumInjected(Written) = 0

\* a metadata line, then two region lines: one block, between line 1 and 2
C4_Witness ==
    /\ pc = "done"
    /\ Len(Lines) = 3
    /\ FirstFeature = 2
    /\ IsRegionLine(Lines[2])
    /\ IsRegionLine(Lines[3])
    /\ Len(outfile) = Len(InjectedLines) + 3
    /\ NumInjected(outfile) = Len(InjectedLines)

\* C5 as stated: in a finished run every "#" line that is no sequence-header
\* line is in the output, trimmed, in the original order, before the first
\* record of the output.
C5_MetadataBeforeFirstRecord ==
    pc = "done" =>
        \A i \in 1..Len(Lines) :
            (IsMeta(Lines[i]) /\ HeaderField(Lines[i]) # "sequence-header") =>
                /\ OutPos(i) <= Len(outfile)
                /\ outfile[OutPos(i)].kind = "text"
                /\ TrimOf(outfile[OutPos(i)].toks, Lines[i].toks)
                /\ \A j \in 1..OutPos(i) : ~IsRecord(outfile[j])

\* C5 amended: every "#" line the loop has read, sequence-header or not, is
\* in the output trimmed of surrounding whitespace at the place where it was
\* read: after what the earlier lines wrote and before what the later ones
\* write. It precedes every record of the output exactly when no region line
\* precedes it in the input.
C5_MetadataInPlace ==
    /\ Count(Written, LAMBDA l : l.kind = "text" /\ ~IsInjected(l))
          = Count(ReadLines, IsMeta)
    /\ \A i \in 1..li :
          IsMeta(Lines[i]) =>
              /\ OutPos(i) <= Len(Written)
              /\ Written[OutPos(i)].kind = "text"
              /\ TrimOf(Written[OutPos(i)].toks, Lines[i].toks)
              /\ (\A j \in 1..OutPos(i) : ~IsRecord(Written[j]))
                    <=> (\A j \in 1..(i - 1) : ~IsRegionLine(Lines[j]))

\* a padded comment after a region line: written trimmed, after the record
C5_Witness ==
    /\ pc = "done"
    /\ Len(Lines) = 3
    /\ Lines[1] = SeqHeader
    /\ IsRegionLine(Lines[2])
    /\ Lines[3] = Comment
    /\ outfile[Len(outfile)] = TextLine(<<"#", "note">>)
    /\ IsRecord(outfile[Len(outfile) - 1])

\* C6: in a finished run the records of the output are the feature lines of
\* the input, one for one and in order, and a feature line whose type is not
\* region is written as parsed, its attributes unchanged.
C6_EveryFeatureLineWritten ==
    pc = "done" =>
        LET feats == SelectSeq(Lines, IsRecord)
        IN  /\ Len(OutRecords) = Len(feats)
            /\ \A i \in 1..Len(feats) :
                  /\ OutRecords[i].seqid = feats[i].seqid
                  /\ OutRecords[i].type = feats[i].type
                  /\ feats[i].type # "region" =>
                        OutRecords[i].attrs = feats[i].attrs

\* C8 (state part): a line that does not begin with "#" and does not parse
\* is the last line the loop reads: the run has failed on it with a parse
\* error, both files are closed, and the output holds what the lines before
\* it wrote, and the block.
C8_FailedAtBadLine ==
    LET bad == {i \in 1..li : ~IsMeta(Lines[i]) /\ ~Parses(Lines[i])}
    IN  /\ bad # {} =>
              /\ bad = {li}
              /\ pc = "failed" /\ err = "parse" /\ ~outOpen
              /\ Len(outfile) = Count(SubSeq(Lines, 1, li - 1), IsMeta)
                                + Count(SubSeq(Lines, 1, li - 1), IsRegionLine)
                                + Len(InjectedLines)
        /\ err = "parse" => bad # {}

\* C8: a malformed feature line ends the run at that line; the step that
\* fails keeps every line already written, and after the failure nothing is
\* read or written any more.
C8_MalformedLineAborts ==
    /\ []C8_FailedAtBadLine
    /\ [][/\ pc' = "failed" /\ err' = "parse" =>
                /\ Len(outfile') >= Len(outfile)
                /\ SubSeq(outfile', 1, Len(outfile)) = outfile
          /\ pc = "failed" => UNCHANGED <<outfile, li, pc, err>>]_vars

\* a region line written, then a malformed line with one more line behind it
C8_Witness ==
    /\ pc = "failed" /\ err = "parse"
    /\ li = 2 /\ Len(Lines) = 3
    /\ IsRegionLine(Lines[1])
    /\ Len(outfile) = Len(InjectedLines) + 1
    /\ IsRecord(outfile[Len(outfile)])

\* C9: until the hits are loaded and the alignment summary is open, and in
\* a run that fails on either or on opening the output, the output file is
\* not opened and keeps its old content; when it is about to be opened, and
\* from then on unless the run overwrites the modification file, hits holds
\* every known-type record of the modification file.
C9_LoadBeforeOutput ==
    /\ (pc \in {"new", "load", "openSummary", "openOut"}
            \/ err \in {"mods", "summary", "output"})
          => (outfile = OldContent(modFile, summaryFile, outPath) /\ ~outOpen)
    /\ (outOpen \/ pc \in {"loop", "done"} \/ err = "parse") =>
          /\ modFile.exists /\ summaryFile.exists
          /\ outPath # "unwritable"
          /\ outPath = "mods" => modFile.recs = outfile
    /\ (pc = "openOut" \/ ((outOpen \/ pc \in {"loop", "done"} \/ err = "parse")
                              /\ outPath # "mods")) =>
          /\ Len(hits) = Count(modFile.recs, LAMBDA x : x.type \in KnownTypes)
          /\ \A i \in 1..Len(modFile.recs) : modFile.recs[i].ok

\* the hits are loaded, the alignment summary is missing, the output is intact
C9_Witness ==
    /\ pc = "failed" /\ err = "summary"
    /\ Len(hits) = 2
    /\ outPath = "new"
    /\ outfile = OldOutput /\ ~outOpen

\* C10: inHeader starts true and never becomes true again; it becomes false
\* in the iteration that reads the first line not beginning with "#", which
\* writes the block before anything else whether or not the line parses; no
\* other step writes a line of the block.
C10_HeaderFlag ==
    /\ inHeader = TRUE
    /\ [][/\ ~inHeader => ~inHeader'
          /\ (inHeader /\ ~inHeader') =>
                /\ pc = "loop" /\ li' = FirstFeature
                /\ Len(outfile') >= Len(outfile) + Len(InjectedLines)
                /\ SubSeq(outfile', 1, Len(outfile) + Len(InjectedLines))
                      = outfile \o InjectedLines
          /\ (pc = "loop" /\ li' = li + 1 /\ inHeader /\ ~IsMeta(Lines[li'])) =>
                ~inHeader'
          /\ NumInjected(outfile') # NumInjected(outfile) =>
                (inHeader /\ ~inHeader')
          /\ NumInjected(outfile') <= Len(InjectedLines)]_vars

\* a "#" line, a feature line, a "#" line: the block is written once, and
\* the "#" line after the feature line is copied without a second block
C10_Witness ==
    /\ ~inHeader
    /\ Len(Lines) = 3
    /\ IsMeta(Lines[1]) /\ ~IsMeta(Lines[2]) /\ IsMeta(Lines[3])
    /\ pc = "done"
    /\ NumInjected(outfile) = Len(InjectedLines)

----------------------------------------------------------------------------
(* Property of countModificationTypes (SpecCount) *)

\* C7: for a list of hits and any reordering of it, the two mappings
\* returned are equal and map each key to its number of occurrences in the
\* list; when the types are all among the four known tags, the keys are
\* exactly those four.
C7_OrderIndependent ==
    Len(ret) = 2 =>
        /\ ret[1] = ret[2]
        /\ \A t \in DOMAIN ret[2] :
              ret[2][t] = Count(mods, LAMBDA h : h.type = t)
        /\ (\A i \in 1..Len(mods) :
               mods[i].type \in {"modified_base", "m6A", "m4C", "m5C"})
              => DOMAIN ret[2] = {"modified_base", "m6A", "m4C", "m5C"}

\* two hits of one type around a hit of another, counted in another order
C7_Witness ==
    /\ Len(ret) = 2
    /\ Len(mods) = 3
    /\ mods[1].type = "m6A" /\ mods[2].type = "m4C" /\ mods[3].type = "m6A"
    /\ perm # mods
    /\ ret[2]["m6A"] = 2 /\ ret[2]["m5C"] = 0

====
